---- MODULE Spec2Model ----
(***************************************************************************)
(* Model of homosphere/ec2.py: the VPC helper that sizes and allocates a   *)
(* public and a private subnet per availability zone of a region.          *)
(*                                                                         *)
(* One VPC object is modelled.  Its fields (self.data, self.network and    *)
(* the troposphere Template it fills) are the variables; every public      *)
(* method is one action that runs the whole method, exceptions included:   *)
(* a raised exception ends the method and keeps what was written so far.   *)
(***************************************************************************)
EXTENDS Integers, Sequences, FiniteSets, TLC

(* ---------------------------------------------------------------------- *)
(* Bounds                                                                  *)
(* ---------------------------------------------------------------------- *)
\* longest zone list describe_availability_zones answers with
MaxZones == 3
\* describe_availability_zones calls issued in one session
MaxQueries == 2

(* ---------------------------------------------------------------------- *)
(* Program constants                                                       *)
(* ---------------------------------------------------------------------- *)
\* stop value of range(prefixlen + 1, 29) in calculate_subnet_prefixlen
RangeStop == 29
\* IPv4 address width (ipaddress.IPv4Network.max_prefixlen)
MaxPrefixlen == 32

VARIABLES
    IPv4Network,        \* self.data['IPv4Network']: [addr, prefixlen]
    AvailabilityZones,  \* self.data['Availability Zones']
    SubnetPrefixlen,    \* self.data['Subnet Prefixlen']
    InternetGateway,    \* 'InternetGateway' in self.network
    SubnetsKey,         \* 'Subnets' in self.network
    Subnets,            \* self.network['Subnets']: zone -> {Public, Private}
    TemplateResources,  \* titles of the resources of self.data['Template']
    Outputs,            \* self.data['Outputs']: title -> description
    TemplateOutputs,    \* outputs added to self.data['Template'], in order
    queries,            \* describe_availability_zones calls issued so far
    last                \* the last method call and how it ended

vars == <<IPv4Network, AvailabilityZones, SubnetPrefixlen, InternetGateway,
          SubnetsKey, Subnets, TemplateResources, Outputs, TemplateOutputs,
          queries, last>>

(* ---------------------------------------------------------------------- *)
(* Names, titles, networks                                                 *)
(* ---------------------------------------------------------------------- *)
\* Strings are sequences of characters; a title is the concatenation of
\* cleaned names and literal suffixes.
AlNum == {"v", "r", "1", "a", "b", "c", "d"}

\* TITLE_CLEANUP_RE.subn('', s)[0]: drop every character that is not
\* alphanumeric
IsAlNum(ch) == ch \in AlNum
TitleCleanup(s) == SelectSeq(s, IsAlNum)

\* constructor arguments name and region
Name == <<"v">>
Region == <<"r", "-", "1">>
Title == TitleCleanup(Name)

\* zone names the region may report ("1-a", "1-b", ...), one per letter
ZoneLetters == <<"a", "b", "c", "d">>
ZoneName(i) == <<"1", "-", ZoneLetters[i]>>
ZoneNames ==
    {ZoneName(i) : i \in 1..(IF MaxZones < 4 THEN MaxZones ELSE 4)}

RECURSIVE SeqsUpTo(_, _)
SeqsUpTo(S, n) ==
    IF n = 0 THEN {<<>>}
    ELSE LET shorter == SeqsUpTo(S, n - 1)
         IN shorter \cup {Append(q, z) : q \in shorter, z \in S}

Range(q) == {q[i] : i \in 1..Len(q)}
IsInjective(q) == \A i, j \in 1..Len(q) : q[i] = q[j] => i = j

\* answers of describe_availability_zones: lists of distinct zone names
ZoneLists == {q \in SeqsUpTo(ZoneNames, MaxZones) : IsInjective(q)}

\* 10.0.0.0
BaseAddr == 10 * 16777216
ParentPrefixes == {16} \cup (25..30)

Pow2(n) == 2 ^ n

\* IPv4Network.num_addresses
num_addresses(net) == Pow2(MaxPrefixlen - net.prefixlen)

\* number of subnets IPv4Network.subnets(new_prefix) yields
SubnetCount(net, new_prefix) == Pow2(new_prefix - net.prefixlen)

\* the i-th (0-based) network IPv4Network.subnets(new_prefix) yields
NthSubnet(net, new_prefix, i) ==
    [addr |-> net.addr + i * Pow2(MaxPrefixlen - new_prefix),
     prefixlen |-> new_prefix]

\* str(network): dotted quad and prefix length
NetStr(net) ==
    << net.addr \div 16777216, (net.addr \div 65536) % 256,
       (net.addr \div 256) % 256, net.addr % 256, net.prefixlen >>

(* ---------------------------------------------------------------------- *)
(* Dictionaries                                                            *)
(* ---------------------------------------------------------------------- *)
EmptyDict == [k \in {} |-> 0]
Put(d, k, v) == [x \in (DOMAIN d) \cup {k} |-> IF x = k THEN v ELSE d[x]]
Has(d, k) == k \in DOMAIN d

(* ---------------------------------------------------------------------- *)
(* The object as one record, so that methods compose                       *)
(* ---------------------------------------------------------------------- *)
Self ==
    [net |-> IPv4Network, az |-> AvailabilityZones, pfx |-> SubnetPrefixlen,
     igw |-> InternetGateway, skey |-> SubnetsKey, subnets |-> Subnets,
     res |-> TemplateResources, outs |-> Outputs, touts |-> TemplateOutputs,
     queries |-> queries, err |-> "none", calc |-> "not run"]

Raise(s, e) == [s EXCEPT !.err = e]

\* the call op(arg) ended in state s; calc tells whether it ran
\* calculate_subnet_prefixlen ("not run", "raised", "completed")
Returns(s, op, arg) ==
    /\ IPv4Network' = s.net
    /\ AvailabilityZones' = s.az
    /\ SubnetPrefixlen' = s.pfx
    /\ InternetGateway' = s.igw
    /\ SubnetsKey' = s.skey
    /\ Subnets' = s.subnets
    /\ TemplateResources' = s.res
    /\ Outputs' = s.outs
    /\ TemplateOutputs' = s.touts
    /\ queries' = s.queries
    /\ last' = [op |-> op, arg |-> arg, err |-> s.err, calc |-> s.calc]

(* ---------------------------------------------------------------------- *)
(* nearest_power_of_2                                                      *)
(* ---------------------------------------------------------------------- *)
\* ceil(log(number, 2)) for number >= 1
RECURSIVE CeilLog2From(_, _)
CeilLog2From(number, e) ==
    IF Pow2(e) >= number THEN e ELSE CeilLog2From(number, e + 1)
CeilLog2(number) == CeilLog2From(number, 0)

\* variant: floor in place of ceil
RECURSIVE FloorLog2From(_, _)
FloorLog2From(number, e) ==
    IF Pow2(e + 1) > number THEN e ELSE FloorLog2From(number, e + 1)
nearest_power_of_2_floor(number) == Pow2(FloorLog2From(number, 0))

\* int(pow(2, ceil(log(number, 2)))), number >= 1; log(0, 2) raises
nearest_power_of_2(number) == Pow2(CeilLog2(number))

(* ---------------------------------------------------------------------- *)
(* add_output                                                              *)
(* ---------------------------------------------------------------------- *)
\* variant: no membership test, the entry is written whatever it held
add_output_overwrite(s, title, description) ==
    [s EXCEPT !.outs = Put(@, title, description),
              !.touts = Append(@, title)]

add_output(s, title, description) ==
    IF ~Has(s.outs, title)
    THEN [s EXCEPT !.outs = Put(@, title, description),
                   !.touts = Append(@, title)]
    ELSE Raise(s, "AlreadyExported")

(* ---------------------------------------------------------------------- *)
(* get_availability_zones                                                  *)
(* ---------------------------------------------------------------------- *)
\* reply: what describe_availability_zones answers if it is called
get_availability_zones(s, reply) ==
    IF s.az = <<>>
    THEN [s EXCEPT !.az = reply, !.queries = @ + 1]
    ELSE s

\* the answers worth distinguishing for a call made in state s
Replies(s) == IF s.az = <<>> THEN ZoneLists ELSE {<<>>}

(* ---------------------------------------------------------------------- *)
(* calculate_subnet_prefixlen                                              *)
(* ---------------------------------------------------------------------- *)
\* variant: range(prefixlen + 1, 28)
CandidatePrefixes_stop28(net) == (net.prefixlen + 1)..(RangeStop - 2)

\* variant: range(prefixlen + 1, 33)
CandidatePrefixes_stop33(net) == (net.prefixlen + 1)..MaxPrefixlen

\* range(prefixlen + 1, 29)
CandidatePrefixes(net) == (net.prefixlen + 1)..(RangeStop - 1)

\* [next(net.subnets(new_prefix=item)) for item in range(...)]
CandidateSubnets(net) ==
    [i \in 1..Cardinality(CandidatePrefixes(net)) |->
        NthSubnet(net, net.prefixlen + i, 0)]

\* subnet_hosts.index(num_addresses / nearest): the first position whose
\* host count equals the quotient, 0 when there is none (ValueError).
\* The quotient of two powers of two is exact in floating point, so an
\* integer h equals it exactly when h * nearest = num_addresses.
IndexOfRequired(subnet_hosts, total, nearest) ==
    LET hits == {i \in 1..Len(subnet_hosts) :
                    subnet_hosts[i] * nearest = total}
    IN IF hits = {} THEN 0
       ELSE CHOOSE i \in hits : \A j \in hits : i <= j

\* variant: when no candidate matches, settle for the smallest candidate
\* subnet instead of raising
calculate_subnet_prefixlen_fallback(s, reply) ==
    LET s0 == [s EXCEPT !.calc = "raised"]
        s1 == IF s0.az = <<>> THEN get_availability_zones(s0, reply) ELSE s0
        num_of_zones == Len(s1.az) * 2
    IN IF num_of_zones = 0 THEN Raise(s1, "MathDomainError")
       ELSE
        LET nearest == nearest_power_of_2(num_of_zones)
            subnets == CandidateSubnets(s1.net)
            subnet_hosts == [i \in 1..Len(subnets) |->
                                num_addresses(subnets[i])]
            idx == IndexOfRequired(subnet_hosts, num_addresses(s1.net),
                                   nearest)
        IN IF idx = 0 /\ subnets = <<>> THEN Raise(s1, "TooSmall")
           ELSE [s1 EXCEPT !.pfx = subnets[IF idx = 0 THEN Len(subnets)
                                           ELSE idx].prefixlen,
                           !.calc = "completed"]

calculate_subnet_prefixlen(s, reply) ==
    LET s0 == [s EXCEPT !.calc = "raised"]
        s1 == IF s0.az = <<>> THEN get_availability_zones(s0, reply) ELSE s0
        num_of_zones == Len(s1.az) * 2
    IN IF num_of_zones = 0 THEN Raise(s1, "MathDomainError")
       ELSE
        LET nearest == nearest_power_of_2(num_of_zones)
            subnets == CandidateSubnets(s1.net)
            subnet_hosts == [i \in 1..Len(subnets) |->
                                num_addresses(subnets[i])]
            idx == IndexOfRequired(subnet_hosts, num_addresses(s1.net),
                                   nearest)
        IN IF idx = 0 THEN Raise(s1, "TooSmall")
           ELSE [s1 EXCEPT !.pfx = subnets[idx].prefixlen,
                           !.calc = "completed"]

(* ---------------------------------------------------------------------- *)
(* Template resources                                                      *)
(* ---------------------------------------------------------------------- *)
\* a troposphere resource built with template=...: the template refuses a
\* title it already holds, and the constructor raises
AddResource(s, title) ==
    IF s.err # "none" THEN s
    ELSE IF title \in s.res THEN Raise(s, "DuplicateResource")
    ELSE [s EXCEPT !.res = @ \cup {title}]

RECURSIVE AddResources(_, _)
AddResources(s, titles) ==
    IF titles = <<>> THEN s
    ELSE AddResources(AddResource(s, Head(titles)), Tail(titles))

ZoneTitle(zone) == Title \o TitleCleanup(zone)

(* ---------------------------------------------------------------------- *)
(* create_internet_gateway                                                 *)
(* ---------------------------------------------------------------------- *)
create_internet_gateway(s) ==
    IF s.igw THEN s
    ELSE LET s1 == AddResource(s, Title \o <<"InternetGateway">>)
         IN IF s1.err # "none" THEN s1
            ELSE AddResource([s1 EXCEPT !.igw = TRUE],
                             Title \o <<"VPCGatewayAttachment">>)

(* ---------------------------------------------------------------------- *)
(* create_public_subnet                                                    *)
(* ---------------------------------------------------------------------- *)
create_public_subnet(s, zone, ip_network) ==
    LET zone_title == ZoneTitle(zone)
        s1 == AddResources(s, << zone_title \o <<"Public">>,
                                 zone_title \o <<"NatEIP">>,
                                 zone_title \o <<"NATGateway">>,
                                 zone_title \o <<"PublicRouteTable">> >>)
    IN IF s1.err # "none" THEN s1
       \* Ref(self.network['InternetGateway'])
       ELSE IF ~s1.igw THEN Raise(s1, "KeyError")
       ELSE
        LET s2 == AddResources(s1,
                    << zone_title \o <<"PublicDefaultRoute">>,
                       zone_title \o
                           <<"PublicSubnetRouteTableAssociation">> >>)
        IN IF s2.err # "none" THEN s2
           \* self.network['Subnets'][zone]['Public'] = {}
           ELSE IF ~s2.skey \/ ~Has(s2.subnets, zone)
                THEN Raise(s2, "KeyError")
           ELSE
            LET public == [Subnet |-> ip_network,
                           NatGateway |-> zone_title \o <<"NATGateway">>]
                s3 == [s2 EXCEPT !.subnets[zone] = Put(@, "Public", public)]
            IN add_output(s3,
                          Title \o zone_title \o <<"PublicRouteTable">>,
                          <<"Public Route Table ID", zone>>)

(* ---------------------------------------------------------------------- *)
(* create_private_subnet                                                   *)
(* ---------------------------------------------------------------------- *)
\* variant: the public subnet and its NAT gateway are not looked for
create_private_subnet_unchecked(s, zone, ip_network) ==
    IF ~s.skey \/ ~Has(s.subnets, zone) THEN Raise(s, "KeyError")
    ELSE
     LET zone_title == ZoneTitle(zone)
         s1 == AddResources(s,
                 << zone_title \o <<"Private">>,
                    zone_title \o <<"PrivateRouteTable">>,
                    zone_title \o <<"PrivateDefaultRoute">>,
                    zone_title \o
                        <<"PrivateSubnetRouteTableAssociation">> >>)
     IN IF s1.err # "none" THEN s1
        ELSE
         LET private == [Subnet |-> ip_network,
                         NatGatewayId |-> zone_title \o <<"NATGateway">>]
             s2 == [s1 EXCEPT !.subnets[zone] = Put(@, "Private", private)]
         IN add_output(s2,
                       Title \o zone_title \o <<"PrivateRouteTable">>,
                       <<"Private Route Table ID", zone>>)

create_private_subnet(s, zone, ip_network) ==
    \* self.network['Subnets'][zone]
    IF ~s.skey \/ ~Has(s.subnets, zone) THEN Raise(s, "KeyError")
    ELSE IF ~Has(s.subnets[zone], "Public") THEN Raise(s, "NoPublicSubnet")
    ELSE IF ~("NatGateway" \in DOMAIN s.subnets[zone]["Public"])
         THEN Raise(s, "NoNatGateway")
    ELSE
     LET zone_title == ZoneTitle(zone)
         s1 == AddResources(s,
                 << zone_title \o <<"Private">>,
                    zone_title \o <<"PrivateRouteTable">>,
                    zone_title \o <<"PrivateDefaultRoute">>,
                    zone_title \o
                        <<"PrivateSubnetRouteTableAssociation">> >>)
     IN IF s1.err # "none" THEN s1
        ELSE
         LET private == [Subnet |-> ip_network,
                         NatGatewayId |-> s1.subnets[zone]["Public"].NatGateway]
             s2 == [s1 EXCEPT !.subnets[zone] = Put(@, "Private", private)]
         IN add_output(s2,
                       Title \o zone_title \o <<"PrivateRouteTable">>,
                       <<"Private Route Table ID", zone>>)

(* ---------------------------------------------------------------------- *)
(* create_subnets                                                          *)
(* ---------------------------------------------------------------------- *)
\* One turn of the loop for zone; g is the number of networks already
\* taken from the generator IPv4Network.subnets(new_prefix).  next() on an
\* exhausted generator raises StopIteration.
\* variant: one next(subnets) serves both subnets of the zone
ZoneStep_sameNetwork(s, zone, g) ==
    LET count == SubnetCount(s.net, s.pfx)
        s1 == [s EXCEPT !.subnets = Put(@, zone, EmptyDict)]
    IN IF g >= count THEN Raise(s1, "StopIteration")
       ELSE
        LET s2 == create_public_subnet(s1, zone,
                      NetStr(NthSubnet(s1.net, s1.pfx, g)))
        IN IF s2.err # "none" THEN s2
           ELSE create_private_subnet(s2, zone,
                    NetStr(NthSubnet(s2.net, s2.pfx, g)))

\* variant: the networks are taken from the high end of the parent
ZoneStep_descending(s, zone, g) ==
    LET count == SubnetCount(s.net, s.pfx)
        s1 == [s EXCEPT !.subnets = Put(@, zone, EmptyDict)]
    IN IF g >= count THEN Raise(s1, "StopIteration")
       ELSE
        LET s2 == create_public_subnet(s1, zone,
                      NetStr(NthSubnet(s1.net, s1.pfx, count - 1 - g)))
        IN IF s2.err # "none" THEN s2
           ELSE IF g + 1 >= count THEN Raise(s2, "StopIteration")
           ELSE create_private_subnet(s2, zone,
                    NetStr(NthSubnet(s2.net, s2.pfx, count - 2 - g)))

ZoneStep(s, zone, g) ==
    LET count == SubnetCount(s.net, s.pfx)
        s1 == [s EXCEPT !.subnets = Put(@, zone, EmptyDict)]
    IN IF g >= count THEN Raise(s1, "StopIteration")
       ELSE
        LET s2 == create_public_subnet(s1, zone,
                      NetStr(NthSubnet(s1.net, s1.pfx, g)))
        IN IF s2.err # "none" THEN s2
           ELSE IF g + 1 >= count THEN Raise(s2, "StopIteration")
           ELSE create_private_subnet(s2, zone,
                    NetStr(NthSubnet(s2.net, s2.pfx, g + 1)))

\* for zone in self.data['Availability Zones'], from position i on
RECURSIVE ZoneLoop(_, _, _)
ZoneLoop(s, i, g) ==
    IF s.err # "none" \/ i > Len(s.az) THEN s
    ELSE ZoneLoop(ZoneStep(s, s.az[i], g), i + 1, g + 2)

\* variant: the prefix length is calculated on every call
create_subnets_recalculate(s, reply1, reply2) ==
    LET s1 == get_availability_zones(s, reply1)
        s2 == calculate_subnet_prefixlen(s1, reply2)
    IN IF s2.err # "none" THEN s2
       ELSE ZoneLoop([s2 EXCEPT !.skey = TRUE, !.subnets = EmptyDict], 1, 0)

create_subnets(s, reply1, reply2) ==
    LET s1 == get_availability_zones(s, reply1)
        s2 == IF s1.pfx = 0 THEN calculate_subnet_prefixlen(s1, reply2)
              ELSE s1
    IN IF s2.err # "none" THEN s2
       ELSE ZoneLoop([s2 EXCEPT !.skey = TRUE, !.subnets = EmptyDict], 1, 0)

(* ---------------------------------------------------------------------- *)
(* Construction                                                            *)
(* ---------------------------------------------------------------------- *)
\* The object is built with a usable boto3 session (the default profile),
\* so that describe_availability_zones can be called.  The VPC resource is
\* built without template=, hence the template starts with no resource.
\* the output __init__ registers for the VPC itself
VpcOutputTitle == Title \o TitleCleanup(Region)

Init ==
    /\ IPv4Network \in [addr : {BaseAddr}, prefixlen : ParentPrefixes]
    /\ AvailabilityZones = <<>>
    /\ SubnetPrefixlen = 0
    /\ InternetGateway = FALSE
    /\ SubnetsKey = FALSE
    /\ Subnets = EmptyDict
    /\ TemplateResources = {}
    /\ Outputs = Put(EmptyDict, VpcOutputTitle, <<"VPC ID", Region>>)
    /\ TemplateOutputs = <<VpcOutputTitle>>
    /\ queries = 0
    /\ last = [op |-> "__init__", arg |-> <<>>, err |-> "none",
               calc |-> "not run"]

(* ---------------------------------------------------------------------- *)
(* Calls a client of the object can make                                   *)
(* ---------------------------------------------------------------------- *)
\* arguments of direct calls to the per-zone builders and to add_output
\* "1a" is not a zone of the region; its titles are those of zone "1-a"
DirectZones == {ZoneName(1), <<"1", "a">>}
DirectNetworks ==
    {NetStr(NthSubnet(IPv4Network, IPv4Network.prefixlen + 1, 0))}
DirectTitles ==
    {VpcOutputTitle,
     Title \o ZoneTitle(ZoneName(1)) \o <<"PublicRouteTable">>}
DirectDescriptions == {<<"d">>}

GetAvailabilityZones ==
    /\ AvailabilityZones # <<>> \/ queries + 1 <= MaxQueries
    /\ \E reply \in Replies(Self) :
          Returns(get_availability_zones(Self, reply),
                  "get_availability_zones", <<>>)

CalculateSubnetPrefixlen ==
    /\ AvailabilityZones # <<>> \/ queries + 1 <= MaxQueries
    /\ \E reply \in Replies(Self) :
          Returns(calculate_subnet_prefixlen(Self, reply),
                  "calculate_subnet_prefixlen", <<>>)

CreateInternetGateway ==
    Returns(create_internet_gateway(Self), "create_internet_gateway", <<>>)

CreatePublicSubnet ==
    \E zone \in DirectZones, ip_network \in DirectNetworks :
        Returns(create_public_subnet(Self, zone, ip_network),
                "create_public_subnet", zone)

CreatePrivateSubnet ==
    \E zone \in DirectZones, ip_network \in DirectNetworks :
        Returns(create_private_subnet(Self, zone, ip_network),
                "create_private_subnet", zone)

AddOutput ==
    \E title \in DirectTitles, description \in DirectDescriptions :
        Returns(add_output(Self, title, description), "add_output", title)

CreateSubnets ==
    /\ AvailabilityZones # <<>> \/ queries + 2 <= MaxQueries
    /\ \E reply1 \in Replies(Self) :
          \E reply2 \in Replies(get_availability_zones(Self, reply1)) :
              Returns(create_subnets(Self, reply1, reply2), "create_subnets",
                      <<>>)

Next ==
    \/ GetAvailabilityZones
    \/ CalculateSubnetPrefixlen
    \/ CreateInternetGateway
    \/ CreatePublicSubnet
    \/ CreatePrivateSubnet
    \/ AddOutput
    \/ CreateSubnets

Spec == Init /\ [][Next]_vars

TypeOK ==
    /\ SubnetPrefixlen \in 0..MaxPrefixlen
    /\ queries \in 0..MaxQueries
    /\ InternetGateway \in BOOLEAN
    /\ SubnetsKey \in BOOLEAN

(* ====================================================================== *)
(* Properties                                                              *)
(* ====================================================================== *)
ParentPrefixlen == IPv4Network.prefixlen
ZoneCount == Len(AvailabilityZones)
LargestCandidate == RangeStop - 1

\* the least e with 2^e >= n
BitsFor(n) ==
    CHOOSE e \in 0..MaxPrefixlen :
        Pow2(e) >= n /\ \A d \in 0..(e - 1) : Pow2(d) < n

\* the network a CidrBlock string denotes
CidrNet(s) ==
    [addr |-> s[1] * 16777216 + s[2] * 65536 + s[3] * 256 + s[4],
     prefixlen |-> s[5]]

FirstAddr(net) == net.addr
LastAddr(net) == net.addr + num_addresses(net) - 1

Overlap(a, b) == FirstAddr(a) <= LastAddr(b) /\ FirstAddr(b) <= LastAddr(a)
Within(a, parent) ==
    FirstAddr(parent) <= FirstAddr(a) /\ LastAddr(a) <= LastAddr(parent)

\* the (zone, kind) slots filled in self.network['Subnets']
Slots ==
    {<<zone, kind>> \in (DOMAIN Subnets) \X {"Public", "Private"} :
        Has(Subnets[zone], kind)}
SlotNet(slot) == CidrNet(Subnets[slot[1]][slot[2]].Subnet)

\* create_subnets was the last call and it returned normally
CreateSubnetsDone == last.op = "create_subnets" /\ last.err = "none"

\* everything a failed call may have written, the zone list apart
Written ==
    <<SubnetPrefixlen, SubnetsKey, Subnets, TemplateResources, Outputs,
      TemplateOutputs, InternetGateway>>

(* C1: whenever calculate_subnet_prefixlen completes, the stored prefix    *)
(* length p of a session with z >= 1 zones gives at least 2*z child        *)
(* networks, 2^(p - parent prefix) >= 2*z, and no shorter prefix length    *)
(* does: p = parent prefix + log2 of the least power of two >= 2*z.        *)
C1_SmallestSufficientPrefix ==
    last.calc = "completed" =>
        /\ ZoneCount >= 1
        /\ SubnetPrefixlen >= ParentPrefixlen
        /\ Pow2(SubnetPrefixlen - ParentPrefixlen) >= 2 * ZoneCount
        /\ \A q \in ParentPrefixlen..(SubnetPrefixlen - 1) :
              Pow2(q - ParentPrefixlen) < 2 * ZoneCount
        /\ SubnetPrefixlen = ParentPrefixlen + BitsFor(2 * ZoneCount)

C1_Witness ==
    /\ last.op = "calculate_subnet_prefixlen"
    /\ last.calc = "completed"
    /\ ZoneCount = 3
    /\ ParentPrefixlen = 16
    /\ SubnetPrefixlen = 19

C3_TooSmallStep ==
    /\ (/\ last'.calc # "not run"
        /\ Len(AvailabilityZones') >= 1
        /\ ParentPrefixlen + BitsFor(2 * Len(AvailabilityZones'))
              > LargestCandidate)
       => (last'.err = "TooSmall" /\ UNCHANGED Written)
    /\ (last.err = "TooSmall" /\ last'.op = "create_subnets")
       => (/\ last'.err = "TooSmall"
           /\ ~SubnetsKey'
           /\ Slots' = {}
           /\ UNCHANGED Written)

C3_TooSmallRaisesAndWritesNothing == [][C3_TooSmallStep]_vars

C3_Witness ==
    /\ last.op = "create_subnets"
    /\ last.err = "TooSmall"
    /\ ParentPrefixlen = 29
    /\ ZoneCount = 3
    /\ SubnetPrefixlen = 0
    /\ ~SubnetsKey

(* C4: after create_subnets completes, every zone has a public and a       *)
(* private network, 2*z in all; they are pairwise non-overlapping, inside  *)
(* the parent network, and all of prefix length 'Subnet Prefixlen'.        *)
C4_DisjointContainedEqual ==
    CreateSubnetsDone =>
        /\ Slots = Range(AvailabilityZones) \X {"Public", "Private"}
        /\ Cardinality(Slots) = 2 * ZoneCount
        /\ \A a \in Slots :
              /\ Within(SlotNet(a), IPv4Network)
              /\ SlotNet(a).prefixlen = SubnetPrefixlen
        /\ \A a, b \in Slots : a # b => ~Overlap(SlotNet(a), SlotNet(b))

C4_Witness ==
    /\ CreateSubnetsDone
    /\ ZoneCount = 3
    /\ ParentPrefixlen = 25
    /\ Cardinality({SlotNet(a) : a \in Slots}) = 6

(* C5: create_subnets hands out the parent's child networks in increasing  *)
(* address order: the zone at 0-based position i gets child 2*i as public  *)
(* and child 2*i + 1 as private subnet, no child twice, and the generator  *)
(* is never exhausted.                                                     *)
ChildStr(n) ==
    NetStr([addr |-> IPv4Network.addr
                        + n * Pow2(MaxPrefixlen - SubnetPrefixlen),
            prefixlen |-> SubnetPrefixlen])

C5_SequentialInZoneOrder ==
    /\ last.err # "StopIteration"
    /\ CreateSubnetsDone =>
          /\ \A i \in 1..ZoneCount :
                /\ Subnets[AvailabilityZones[i]]["Public"].Subnet
                      = ChildStr(2 * (i - 1))
                /\ Subnets[AvailabilityZones[i]]["Private"].Subnet
                      = ChildStr(2 * (i - 1) + 1)
          /\ \A i, j \in 1..ZoneCount : i < j =>
                \A k1, k2 \in {"Public", "Private"} :
                    LastAddr(SlotNet(<<AvailabilityZones[i], k1>>))
                        < FirstAddr(SlotNet(<<AvailabilityZones[j], k2>>))

C5_Witness ==
    /\ CreateSubnetsDone
    /\ ZoneCount = 3
    /\ ParentPrefixlen = 16
    /\ Subnets[AvailabilityZones[3]]["Private"].Subnet = <<10, 0, 160, 0, 19>>

(* C6: the list-availability-zones query is issued at most once in a       *)
(* session, whatever it answers.                                           *)
C6_AtMostOneQuery == queries <= 1

(* C7: once 'Subnet Prefixlen' is non-zero, create_subnets does not run    *)
(* calculate_subnet_prefixlen and no call changes the value (a direct      *)
(* recalculation stores the same value); create_subnets computes it only   *)
(* from 0, hence at most once.                                             *)
C7_EstablishedStep ==
    /\ (SubnetPrefixlen # 0 /\ last'.op = "create_subnets")
       => (last'.calc = "not run" /\ SubnetPrefixlen' = SubnetPrefixlen)
    /\ SubnetPrefixlen # 0 => SubnetPrefixlen' = SubnetPrefixlen
    /\ (last'.op = "create_subnets" /\ last'.calc = "completed")
       => (SubnetPrefixlen = 0 /\ SubnetPrefixlen' # 0)

C7_PrefixlenComputedOnce == [][C7_EstablishedStep]_vars

C7_Witness ==
    /\ last.op = "create_subnets"
    /\ last.calc = "not run"
    /\ last.err = "none"
    /\ SubnetPrefixlen # 0

(* C8: a zone with a 'Private' entry has a 'Public' entry holding a        *)
(* 'NatGateway'; create_private_subnet for a zone without them raises and  *)
(* changes nothing.                                                        *)
HasPublicNat(zone) ==
    /\ SubnetsKey
    /\ Has(Subnets, zone)
    /\ Has(Subnets[zone], "Public")
    /\ "NatGateway" \in DOMAIN Subnets[zone]["Public"]

C8_PrivateStep ==
    (last'.op = "create_private_subnet" /\ ~HasPublicNat(last'.arg))
    => (/\ last'.err \in {"KeyError", "NoPublicSubnet", "NoNatGateway"}
        /\ UNCHANGED Written
        /\ UNCHANGED AvailabilityZones)

C8_PrivateNeedsPublicNat ==
    /\ [](\A zone \in DOMAIN Subnets :
            Has(Subnets[zone], "Private") => HasPublicNat(zone))
    /\ [][C8_PrivateStep]_vars

C8_Witness ==
    /\ last.op = "create_private_subnet"
    /\ last.err = "NoPublicSubnet"
    /\ SubnetsKey
    /\ Has(Subnets, last.arg)
    /\ ~Has(Subnets[last.arg], "Public")

(* C9: add_output never overwrites: for a title already recorded it raises *)
(* 'already an exported resource' and leaves the recorded and the template *)
(* outputs alone; for a new title it records exactly one output.  Every    *)
(* title is registered once.                                               *)
C9_OutputStep ==
    /\ \A t \in DOMAIN Outputs :
          t \in DOMAIN Outputs' /\ Outputs'[t] = Outputs[t]
    /\ (last'.op = "add_output" /\ Has(Outputs, last'.arg))
       => (/\ last'.err = "AlreadyExported"
           /\ UNCHANGED <<Outputs, TemplateOutputs>>)
    /\ (last'.op = "add_output" /\ ~Has(Outputs, last'.arg))
       => (/\ last'.err = "none"
           /\ DOMAIN Outputs' = (DOMAIN Outputs) \cup {last'.arg}
           /\ TemplateOutputs' = Append(TemplateOutputs, last'.arg))

C9_OutputsNeverOverwritten ==
    /\ [](/\ IsInjective(TemplateOutputs)
          /\ Range(TemplateOutputs) = DOMAIN Outputs)
    /\ [][C9_OutputStep]_vars

C9_Witness ==
    /\ last.op = "add_output"
    /\ last.err = "AlreadyExported"
    /\ Len(TemplateOutputs) >= 3

(* C10: 'Subnet Prefixlen' is 0 or lies strictly above the parent's prefix *)
(* length and at most 28; a completed calculation never leaves 0.          *)
C10_PrefixlenRange ==
    /\ SubnetPrefixlen = 0
       \/ (ParentPrefixlen < SubnetPrefixlen /\ SubnetPrefixlen <= 28)
    /\ last.calc = "completed" => SubnetPrefixlen # 0

C10_Witness ==
    /\ last.calc = "completed"
    /\ SubnetPrefixlen = 28
    /\ ParentPrefixlen = 26

====
